---------------------------- MODULE Spec2Model ----------------------------
(***************************************************************************)
(* Model of src/medianvals_by_zip.py: the running median / count / total   *)
(* of contributions per (CMTE_ID, ZIP_CODE), one output row per accepted   *)
(* input line.                                                             *)
(*                                                                         *)
(* Text is modelled as a sequence of one-character strings, so that        *)
(* split, strip, slicing, the fixed-width 'S10' fields and the number      *)
(* conversions are computed character by character as the code does.       *)
(* The interpreter is Python 2 (byte strings in the '|S10' fields, written *)
(* by savetxt with "%s"): round() rounds halves away from zero.            *)
(* A float64 is modelled exactly, as an integer number of 1/Unit.          *)
(***************************************************************************)
EXTENDS Integers, Sequences, FiniteSets, TLC

VARIABLES
    pc,              \* "loop": in `for line in f`; "done": returned; "raised": exception left the function
    raised,          \* the exception that ended the run ("" when none)
    lineno,          \* number of lines read from f so far
    candidates,      \* the dictionary {cmte_id: {zip_code: [trans_amt, ...]}}
    records,         \* the recarray rows stacked so far; row 1 is the placeholder shell
    output_records,  \* the local output_records: <<>> while unbound, <<rows>> once assigned
    output,          \* the lines savetxt wrote: <<>> while unwritten, <<lines>> once written
    accepted,        \* history: for each appended row, the input line and the row as emitted
    last             \* history: what the last line read led to

vars == <<pc, raised, lineno, candidates, records, output_records, output, accepted, last>>

-----------------------------------------------------------------------------
(* Bounds and constants *)

MaxLines == 4

NumFields == 21

ZipLen == 5

S10 == 10

Unit == 200

-----------------------------------------------------------------------------
(* Text helpers *)

Digits == <<"0", "1", "2", "3", "4", "5", "6", "7", "8", "9">>

IsDigit(ch) == \E i \in 1..10 : Digits[i] = ch

DigitVal(ch) == (CHOOSE i \in 1..10 : Digits[i] = ch) - 1

Min(a, b) == IF a <= b THEN a ELSE b

\* s[0:n]
SliceTo(s, n) == SubSeq(s, 1, Min(n, Len(s)))

RECURSIVE LStrip(_, _)
LStrip(s, chars) ==
    IF s # <<>> /\ Head(s) \in chars THEN LStrip(Tail(s), chars) ELSE s

RECURSIVE RStrip(_, _)
RStrip(s, chars) ==
    IF s # <<>> /\ s[Len(s)] \in chars THEN RStrip(SubSeq(s, 1, Len(s) - 1), chars) ELSE s

\* str.strip(chars)
Strip(s, chars) == RStrip(LStrip(s, chars), chars)

\* str.split(sep) for a one-character separator
RECURSIVE SplitFrom(_, _, _)
SplitFrom(s, sep, cur) ==
    IF s = <<>> THEN <<cur>>
    ELSE IF Head(s) = sep THEN <<cur>> \o SplitFrom(Tail(s), sep, <<>>)
    ELSE SplitFrom(Tail(s), sep, Append(cur, Head(s)))

Split(s, sep) == SplitFrom(s, sep, <<>>)

\* Python's whitespace, as int() and float() strip it
Whitespace == {" ", "\t", "\n", "\r"}

RECURSIVE DigitsVal(_, _)
DigitsVal(s, acc) ==
    IF s = <<>> THEN acc ELSE DigitsVal(Tail(s), 10 * acc + DigitVal(Head(s)))

AllDigits(s) == \A i \in 1..Len(s) : IsDigit(s[i])

Unsigned(s) == IF s # <<>> /\ Head(s) \in {"+", "-"} THEN Tail(s) ELSE s

Sign(s) == IF s # <<>> /\ Head(s) = "-" THEN -1 ELSE 1

\* int(text): <<>> when it raises ValueError, <<n>> otherwise
ParseInt(text) ==
    LET body == Unsigned(Strip(text, Whitespace))
    IN  IF body # <<>> /\ AllDigits(body)
        THEN <<Sign(Strip(text, Whitespace)) * DigitsVal(body, 0)>>
        ELSE <<>>

\* float(text) for decimal literals of at most two fractional digits:
\* <<>> when it raises ValueError, <<value in 1/Unit>> otherwise
ParseFloat(text) ==
    LET t     == Strip(text, Whitespace)
        body  == Unsigned(t)
        parts == Split(body, ".")
        ip    == parts[1]
        fp    == IF Len(parts) = 2 THEN parts[2] ELSE <<>>
        frac  == IF Len(fp) = 0 THEN 0
                 ELSE IF Len(fp) = 1 THEN 10 * DigitsVal(fp, 0)
                 ELSE DigitsVal(fp, 0)
    IN  IF /\ body # <<>>
           /\ Len(parts) <= 2
           /\ ip # <<>>
           /\ AllDigits(ip)
           /\ AllDigits(fp)
           /\ Len(fp) <= 2
        THEN <<Sign(t) * (DigitsVal(ip, 0) * Unit + frac * (Unit \div 100))>>
        ELSE <<>>

RECURSIVE NatToStr(_)
NatToStr(n) ==
    IF n < 10 THEN <<Digits[n + 1]>> ELSE Append(NatToStr(n \div 10), Digits[(n % 10) + 1])

\* str(n) of an integer
IntToStr(n) == IF n < 0 THEN <<"-">> \o NatToStr(-n) ELSE NatToStr(n)

-----------------------------------------------------------------------------
(* Faulty variants of the operations below.  Each property is also checked *)
(* with one of them in place of the operation, to see that it can fail.    *)

(* extract_data: <<>> stands for the False it returns on a malformed line *)

False == <<>>

\* fault: a line of more than 21 fields passes the length check
extract_data_long_lines(line) ==
    LET record == Split(Strip(line, {"\n"}), "|")
    IN  IF Len(record) < NumFields
        THEN False
        ELSE <<record[1],
               SliceTo(Strip(record[11], {" "}), ZipLen),
               record[14],
               record[15],
               record[16],
               record[15],
               1,
               record[15]>>

\* fault: the last five characters of the postal code are kept, not the first five
extract_data_last_five(line) ==
    LET record == Split(Strip(line, {"\n"}), "|")
        zip    == Strip(record[11], {" "})
    IN  IF Len(record) # NumFields
        THEN False
        ELSE <<record[1],
               SubSeq(zip, Len(zip) - Min(ZipLen, Len(zip)) + 1, Len(zip)),
               record[14],
               record[15],
               record[16],
               record[15],
               1,
               record[15]>>

extract_data(line) ==
    LET record == Split(Strip(line, {"\n"}), "|")
    IN  IF Len(record) # NumFields
        THEN False
        ELSE <<record[1],
               SliceTo(Strip(record[11], {" "}), ZipLen),
               record[14],
               record[15],
               record[16],
               record[15],
               1,
               record[15]>>

\* fault: OTHER_ID is not looked at
check_zip_data_any_other_id(line_of_data) ==
    ~ \/ line_of_data[1] = <<>>
      \/ Len(Strip(line_of_data[2], {" "})) # ZipLen
      \/ Strip(line_of_data[2], {" "}) = <<>>
      \/ line_of_data[4] = <<>>

(* check_zip_data_requirements *)
check_zip_data_requirements(line_of_data) ==
    ~ \/ line_of_data[1] = <<>>
      \/ Len(Strip(line_of_data[2], {" "})) # ZipLen
      \/ Strip(line_of_data[2], {" "}) = <<>>
      \/ line_of_data[4] = <<>>
      \/ line_of_data[5] # <<>>

-----------------------------------------------------------------------------
(* np.rec.array(relevant_data, dtype=records_dt): each list item is cast   *)
(* to its field's type, in field order.  A string field keeps at most 10   *)
(* bytes; the float64 field parses the text as float(); the int64 fields   *)
(* MEDIAN_AMT_BY_ZIP and TOTAL_AMT, which extract_data filled with the     *)
(* amount text as place holders, parse it as int().                        *)

NoError == ""

FloatError == "ValueError: could not convert string to float"

IntError == "ValueError: invalid literal for int() with base 10"

UnboundError == "UnboundLocalError: local variable 'output_records' referenced before assignment"

\* the exception np.rec.array raises on this list, NoError when none
rec_array_error(relevant_data) ==
    IF ParseFloat(relevant_data[4]) = <<>> THEN FloatError
    ELSE IF ParseInt(relevant_data[6]) = <<>> THEN IntError
    ELSE IF ParseInt(relevant_data[8]) = <<>> THEN IntError
    ELSE NoError

AsS10(text) == SliceTo(text, S10)

rec_array(relevant_data) ==
    [CMTE_ID           |-> AsS10(relevant_data[1]),
     ZIP_CODE          |-> AsS10(relevant_data[2]),
     TRANS_DT          |-> AsS10(relevant_data[3]),
     TRANS_AMT         |-> ParseFloat(relevant_data[4])[1],
     OTHER_ID          |-> AsS10(relevant_data[5]),
     MEDIAN_AMT_BY_ZIP |-> ParseInt(relevant_data[6])[1],
     DONATION_COUNT    |-> relevant_data[7],
     TOTAL_AMT         |-> ParseInt(relevant_data[8])[1]]

-----------------------------------------------------------------------------
(* numpy and builtin arithmetic, on float64 values in 1/Unit *)

RECURSIVE Insert(_, _)
Insert(sorted, x) ==
    IF sorted = <<>> THEN <<x>>
    ELSE IF x <= Head(sorted) THEN <<x>> \o sorted
    ELSE <<Head(sorted)>> \o Insert(Tail(sorted), x)

RECURSIVE Sorted(_)
Sorted(list) ==
    IF list = <<>> THEN <<>> ELSE Insert(Sorted(Tail(list)), Head(list))

\* np.median(list): the middle of the sorted values, or the mean of the two middle ones
np_median(list) ==
    LET s == Sorted(list)
        n == Len(list)
    IN  IF n % 2 = 1 THEN s[(n + 1) \div 2]
        ELSE (s[n \div 2] + s[(n \div 2) + 1]) \div 2

RECURSIVE np_sum(_)
np_sum(list) ==
    IF list = <<>> THEN 0 ELSE Head(list) + np_sum(Tail(list))

Abs(x) == IF x < 0 THEN -x ELSE x

Sgn(x) == IF x < 0 THEN -1 ELSE 1

\* fault: the fraction is dropped instead of rounded
py_round_down(x) == Sgn(x) * ((Abs(x) \div Unit) * Unit)

\* round(x, 0) of Python 2: to the nearest whole number, halves away from zero
py_round(x) == Sgn(x) * (((Abs(x) + (Unit \div 2)) \div Unit) * Unit)

\* storing a float64 into an int64 field: the C cast, which truncates toward zero
to_int64(x) == Sgn(x) * (Abs(x) \div Unit)

-----------------------------------------------------------------------------
(* update_donations *)

\* lines 57-64: the dictionary after the amount is filed under cmte_id, zip_code
dict_insert(dict, cmte_id, zip_code, trans_amt) ==
    IF cmte_id \in DOMAIN dict
    THEN IF zip_code \in DOMAIN dict[cmte_id]
         THEN [dict EXCEPT ![cmte_id][zip_code] = Append(@, trans_amt)]
         ELSE [dict EXCEPT ![cmte_id] = @ @@ (zip_code :> <<trans_amt>>)]
    ELSE dict @@ (cmte_id :> (zip_code :> <<trans_amt>>))

\* fault: the place holder amount of the line is left as the total
total_amt_of_line(series) == to_int64(series[Len(series)])

\* fault: the place holder count is left in the row
donation_count_of_line(series) == 1

median_amt_by_zip(series) == to_int64(py_round(np_median(series)))

total_amt(series) == to_int64(np_sum(series))

donation_count(series) == Len(series)

\* the pair <<data, donations_dictionary>> it returns
update_donations(data, donations_dictionary) ==
    LET cmte_id   == data.CMTE_ID
        zip_code  == data.ZIP_CODE
        trans_amt == data.TRANS_AMT
        dict      == dict_insert(donations_dictionary, cmte_id, zip_code, trans_amt)
        series    == dict[cmte_id][zip_code]
    IN  <<[data EXCEPT !.MEDIAN_AMT_BY_ZIP = median_amt_by_zip(series),
                       !.TOTAL_AMT         = total_amt(series),
                       !.DONATION_COUNT    = donation_count(series)],
          dict>>

-----------------------------------------------------------------------------
(* medianvals_by_zip: the rows written *)

\* one row of np.hstack((CMTE_ID, ZIP_CODE, MEDIAN_AMT_BY_ZIP, DONATION_COUNT, TOTAL_AMT)):
\* the common type of the five columns is a byte string, so the integers become their digits
hstack_row(rec) ==
    <<rec.CMTE_ID,
      rec.ZIP_CODE,
      IntToStr(rec.MEDIAN_AMT_BY_ZIP),
      IntToStr(rec.DONATION_COUNT),
      IntToStr(rec.TOTAL_AMT)>>

\* fault: the placeholder row is not deleted
make_output_records_with_shell(recs) ==
    [i \in 1..Len(recs) |-> hstack_row(recs[i])]

\* np.delete(np.hstack(...), (0), axis=0): every stacked row but the placeholder
make_output_records(recs) ==
    [i \in 1..(Len(recs) - 1) |-> hstack_row(recs[i + 1])]

RECURSIVE Join(_, _)
Join(fields, sep) ==
    IF Len(fields) = 1 THEN fields[1]
    ELSE fields[1] \o <<sep>> \o Join(Tail(fields), sep)

\* np.savetxt(path, output_records, delimiter='|', fmt="%s"): one line per row
savetxt(rows) == [i \in 1..Len(rows) |-> Join(rows[i], "|") \o <<"\n">>]

-----------------------------------------------------------------------------
(* Input lines *)

Pipes(n) == [i \in 1..n |-> "|"]

\* a line of n fields carrying the five fields of interest at 0, 10, 13, 14, 15
\* (n = 21 for a well-formed line); the other fields are empty
MkLine(cmte, zip, dt, amt, other, n) ==
    cmte \o Pipes(10) \o zip \o Pipes(3) \o dt \o <<"|">> \o amt \o <<"|">> \o other
         \o Pipes(n - 16) \o <<"\n">>

Date == <<"0", "1", "0", "3", "2", "0", "1", "7">>

CmteA == <<"C", "1">>

CmteB == <<"C", "2">>

\* two identifiers of 11 characters that differ in the last one only
CmteLong1 == <<"C", "0", "0", "1", "7", "7", "4", "3", "6", "0", "1">>

CmteLong2 == <<"C", "0", "0", "1", "7", "7", "4", "3", "6", "0", "2">>

Zip90210 == <<"9", "0", "2", "1", "0">>

\* a 9-digit postal code between spaces
ZipNine == <<" ", "1", "0", "0", "0", "1", "4", "3", "2", "1", " ">>

ZipTab == <<"\t", "9", "0", "2", "1", "0">>

ZipShort == <<"1", "2", "3", "4">>

\* its first five characters end in a space
ZipGap == <<"1", "2", "3", "4", " ", "5", "6", "7", "8">>

Amt10 == <<"1", "0">>

Amt15 == <<"1", "5">>

AmtNeg15 == <<"-", "1", "5">>

Amt40 == <<"4", "0">>

AmtDecimal == <<"2", ".", "5">>

AmtText == <<"a", "b", "c">>

GoodLines ==
    {MkLine(CmteA, Zip90210, Date, a, <<>>, NumFields) : a \in {Amt10, Amt15, AmtNeg15, Amt40}}
    \cup {MkLine(CmteA, ZipNine, Date, Amt15, <<>>, NumFields),
          MkLine(CmteLong1, Zip90210, Date, Amt10, <<>>, NumFields),
          MkLine(CmteLong2, Zip90210, Date, Amt15, <<>>, NumFields),
          MkLine(CmteA, ZipTab, Date, Amt40, <<>>, NumFields)}

InvalidLines ==
    {MkLine(<<>>, Zip90210, Date, Amt10, <<>>, NumFields),
     MkLine(CmteA, ZipShort, Date, Amt10, <<>>, NumFields),
     MkLine(CmteA, ZipGap, Date, Amt10, <<>>, NumFields),
     MkLine(CmteA, Zip90210, Date, <<>>, <<>>, NumFields),
     MkLine(CmteA, Zip90210, Date, Amt10, CmteB, NumFields)}

MalformedLines ==
    {MkLine(CmteA, Zip90210, Date, Amt10, <<>>, NumFields - 1),
     MkLine(CmteA, Zip90210, Date, Amt10, <<>>, NumFields + 1)}

BadAmountLines ==
    {MkLine(CmteA, Zip90210, Date, AmtText, <<>>, NumFields),
     MkLine(CmteA, Zip90210, Date, AmtDecimal, <<>>, NumFields)}

Lines == GoodLines \cup InvalidLines \cup MalformedLines \cup BadAmountLines

\* what np.recarray((1,), dtype=records_dt) may hold: the memory is not initialised
Shell ==
    {[CMTE_ID |-> <<>>, ZIP_CODE |-> <<>>, TRANS_DT |-> <<>>, TRANS_AMT |-> 0, OTHER_ID |-> <<>>,
      MEDIAN_AMT_BY_ZIP |-> 0, DONATION_COUNT |-> 0, TOTAL_AMT |-> 0],
     [CMTE_ID |-> CmteA, ZIP_CODE |-> Zip90210, TRANS_DT |-> Date, TRANS_AMT |-> 10 * Unit,
      OTHER_ID |-> <<>>, MEDIAN_AMT_BY_ZIP |-> 10, DONATION_COUNT |-> 1, TOTAL_AMT |-> 10]}

-----------------------------------------------------------------------------
(* The run of medianvals_by_zip *)

Init ==
    /\ pc = "loop"
    /\ raised = NoError
    /\ lineno = 0
    /\ candidates = <<>>
    /\ records \in {<<shell>> : shell \in Shell}
    /\ output_records = <<>>
    /\ output = <<>>
    /\ accepted = <<>>
    /\ last = "none"

\* lines 98-107 on each line of Lines, computed once: what extract_data returned,
\* whether check_zip_data_requirements passed, and what np.rec.array raised or built
Prepared ==
    [line \in Lines |->
        LET relevant_data == extract_data(line)
            data_check    == relevant_data # False /\ check_zip_data_requirements(relevant_data)
            error         == IF data_check THEN rec_array_error(relevant_data) ELSE NoError
        IN  [relevant_data |-> relevant_data,
             data_check    |-> data_check,
             error         |-> error,
             data          |-> IF data_check /\ error = NoError
                               THEN <<rec_array(relevant_data)>> ELSE <<>>]]

Reading == pc = "loop" /\ lineno < MaxLines

\* line 99-100: extract_data returned False
SkipMalformed(line) ==
    /\ Reading
    /\ Prepared[line].relevant_data = False
    /\ lineno' = lineno + 1
    /\ last' = "malformed"
    /\ UNCHANGED <<pc, raised, candidates, records, output_records, output, accepted>>

\* line 102-104: check_zip_data_requirements returned False
SkipInvalid(line) ==
    /\ Reading
    /\ Prepared[line].relevant_data # False
    /\ ~ Prepared[line].data_check
    /\ lineno' = lineno + 1
    /\ last' = "invalid"
    /\ UNCHANGED <<pc, raised, candidates, records, output_records, output, accepted>>

\* line 107: np.rec.array raises; nothing catches it, the with block closes f
RaiseValueError(line) ==
    /\ Reading
    /\ Prepared[line].data_check
    /\ Prepared[line].error # NoError
    /\ lineno' = lineno + 1
    /\ last' = "error"
    /\ pc' = "raised"
    /\ raised' = Prepared[line].error
    /\ UNCHANGED <<candidates, records, output_records, output, accepted>>

\* lines 107-119: the row is computed, stacked, and output_records rebuilt
AppendRow(line) ==
    /\ Reading
    /\ Prepared[line].data_check
    /\ Prepared[line].error = NoError
    /\ LET updated == update_donations(Prepared[line].data[1], candidates)
       IN  /\ candidates' = updated[2]
           /\ records' = Append(records, updated[1])
           /\ output_records' = <<make_output_records(Append(records, updated[1]))>>
           /\ accepted' = Append(accepted, [line |-> line, row |-> updated[1]])
    /\ lineno' = lineno + 1
    /\ last' = "row"
    /\ UNCHANGED <<pc, raised, output>>

\* one pass of the loop body on the next line of f
ReadLine(line) ==
    \/ SkipMalformed(line)
    \/ SkipInvalid(line)
    \/ RaiseValueError(line)
    \/ AppendRow(line)

\* lines 122-125, f exhausted and some row was appended: savetxt writes output_records
Finish ==
    /\ pc = "loop"
    /\ output_records # <<>>
    /\ output' = <<savetxt(output_records[1])>>
    /\ pc' = "done"
    /\ UNCHANGED <<raised, lineno, candidates, records, output_records, accepted, last>>

\* line 122, f exhausted and no row was appended: output_records was never assigned
FinishUnbound ==
    /\ pc = "loop"
    /\ output_records = <<>>
    /\ pc' = "raised"
    /\ raised' = UnboundError
    /\ UNCHANGED <<lineno, candidates, records, output_records, output, accepted, last>>

Next ==
    \/ \E line \in Lines : SkipMalformed(line)
    \/ \E line \in Lines : SkipInvalid(line)
    \/ \E line \in Lines : RaiseValueError(line)
    \/ \E line \in Lines : AppendRow(line)
    \/ Finish
    \/ FinishUnbound

Spec == Init /\ [][Next]_vars

-----------------------------------------------------------------------------
(* Vocabulary of the properties, stated on the text of a line and on sets  *)
(* of values rather than through the operators above.                      *)

PipeAt(b) == {i \in 1..Len(b) : b[i] = "|"}

NthPipe(b, n) == CHOOSE p \in PipeAt(b) : Cardinality({q \in PipeAt(b) : q < p}) = n - 1

LineBody(line) == SelectSeq(line, LAMBDA ch : ch # "\n")

FieldCount(line) == Cardinality(PipeAt(LineBody(line))) + 1

\* the text of field k (counted from 0) of a line
RawField(line, k) ==
    LET b  == LineBody(line)
        lo == IF k = 0 THEN 0 ELSE NthPipe(b, k)
        hi == IF k = FieldCount(line) - 1 THEN Len(b) + 1 ELSE NthPipe(b, k + 1)
    IN  SubSeq(b, lo + 1, hi - 1)

\* s without the characters of chars that surround it
Trimmed(s, chars) ==
    LET keep == {i \in 1..Len(s) : s[i] \notin chars}
    IN  IF keep = {} THEN <<>>
        ELSE SubSeq(s, CHOOSE i \in keep : \A j \in keep : i <= j,
                       CHOOSE i \in keep : \A j \in keep : j <= i)

Prefix(s, n) == [i \in 1..(IF Len(s) < n THEN Len(s) ELSE n) |-> s[i]]

Raw ==
    [line \in Lines |->
        [n     |-> FieldCount(line),
         cmte  |-> RawField(line, 0),
         zip   |-> RawField(line, 10),
         amt   |-> RawField(line, 14),
         other |-> RawField(line, 15)]]

\* the postal code of the projected record: trimmed of spaces, then cut to five characters
PostalCode(line) == Prefix(Trimmed(Raw[line].zip, {" "}), ZipLen)

\* the four rejection rules of the validator
RuleRejects(line) ==
    \/ Raw[line].cmte = <<>>
    \/ Len(Trimmed(PostalCode(line), {" "})) # ZipLen
    \/ Raw[line].amt = <<>>
    \/ Raw[line].other # <<>>

\* text made of digits, a sign and a decimal point only
NumberText(t) == \A i \in 1..Len(t) : IsDigit(t[i]) \/ t[i] \in {"+", "-", "."}

\* the loop skipped the line: no row, nothing filed, the run goes on
Skipped ==
    /\ pc' = "loop"
    /\ raised' = NoError
    /\ candidates' = candidates
    /\ records' = records
    /\ output_records' = output_records
    /\ output' = output

Rows == 2..Len(records)

SameKey(r, q) == r.CMTE_ID = q.CMTE_ID /\ r.ZIP_CODE = q.ZIP_CODE

\* the rows up to row i filed under the key of row i
KeyRows(i) == {j \in 2..i : SameKey(records[j], records[i])}

CountBelow(i, v) == Cardinality({j \in KeyRows(i) : records[j].TRANS_AMT < v})

CountUpTo(i, v) == Cardinality({j \in KeyRows(i) : records[j].TRANS_AMT <= v})

\* the k-th smallest amount among KeyRows(i)
KthAmount(i, k) ==
    CHOOSE v \in {records[j].TRANS_AMT : j \in KeyRows(i)} :
        CountBelow(i, v) < k /\ k <= CountUpTo(i, v)

\* twice the median of the amounts of KeyRows(i), in 1/Unit
TwiceMedian(i) ==
    LET n == Cardinality(KeyRows(i))
    IN  IF n % 2 = 1 THEN 2 * KthAmount(i, (n + 1) \div 2)
        ELSE KthAmount(i, n \div 2) + KthAmount(i, (n \div 2) + 1)

\* m is x2 / (2 * Unit) rounded to an integer, halves away from zero
RoundsHalfAway(m, x2) ==
    \/ Abs(2 * Unit * m - x2) < Unit
    \/ Abs(2 * Unit * m - x2) = Unit /\ Abs(2 * Unit * m) > Abs(x2)

RECURSIVE SumOver(_)
SumOver(S) ==
    IF S = {} THEN 0
    ELSE LET j == CHOOSE j \in S : TRUE IN records[j].TRANS_AMT + SumOver(S \ {j})

\* t is x / Unit with its fraction dropped
TruncatesTowardZero(t, x) ==
    /\ Abs(t) * Unit <= Abs(x)
    /\ Abs(x) < (Abs(t) + 1) * Unit
    /\ (t # 0 => (t < 0 <=> x < 0))

-----------------------------------------------------------------------------
(* C1: every emitted row carries the median of the amounts filed so far    *)
(* under its key (the middle one, or the mean of the two middle ones),     *)
(* rounded to an integer with halves away from zero.                       *)
C1_Median ==
    \A i \in Rows : RoundsHalfAway(records[i].MEDIAN_AMT_BY_ZIP, TwiceMedian(i))

\* series -15, 10 gave -3 (from -2.5) and series -15, 10, 15, 40 gave 13 (from 12.5)
C1_Witness ==
    \E i, j \in Rows :
        /\ records[i].DONATION_COUNT = 2 /\ records[i].MEDIAN_AMT_BY_ZIP = -3
        /\ records[j].DONATION_COUNT = 4 /\ records[j].MEDIAN_AMT_BY_ZIP = 13

(* C2: the donation count of every emitted row is the number of rows       *)
(* emitted so far under its key, and at emission it is the length of the   *)
(* key's series in the dictionary; so it starts at 1 and grows by 1.       *)
C2_Count ==
    /\ \A i \in Rows : records[i].DONATION_COUNT = Cardinality(KeyRows(i))
    /\ last = "row" =>
          LET r == records[Len(records)]
          IN  r.DONATION_COUNT = Len(candidates[r.CMTE_ID][r.ZIP_CODE])

\* a third row of one key, emitted after a row of another committee
C2_Witness ==
    /\ last = "row"
    /\ Len(records) = 5
    /\ records[5].DONATION_COUNT = 3
    /\ \E i \in Rows : records[i].CMTE_ID # records[5].CMTE_ID

(* C3: the total of every emitted row is the sum of the amounts filed so   *)
(* far under its key, its fraction dropped (truncation toward zero).       *)
C3_Total ==
    \A i \in Rows : TruncatesTowardZero(records[i].TOTAL_AMT, SumOver(KeyRows(i)))

\* a negative and a positive running total, each over several amounts
C3_Witness ==
    \E i, j \in Rows :
        /\ records[i].DONATION_COUNT >= 2 /\ records[i].TOTAL_AMT < 0
        /\ records[j].DONATION_COUNT >= 2 /\ records[j].TOTAL_AMT > 0

(* C4: what is written holds one line per accepted input line, in input    *)
(* order, and nothing else: line i reads back as the row emitted for the   *)
(* i-th accepted line.                                                     *)
C4_RowsInOrder ==
    /\ \A i \in 1..Len(accepted) : records[i + 1] = accepted[i].row
    /\ output_records # <<>> => Len(output_records[1]) = Len(accepted)
    /\ pc = "done" =>
          /\ Len(output[1]) = Len(accepted)
          /\ \A i \in 1..Len(accepted) :
                LET text == Split(Strip(output[1][i], {"\n"}), "|")
                    row  == accepted[i].row
                IN  /\ Len(text) = 5
                    /\ text[1] = row.CMTE_ID
                    /\ text[2] = row.ZIP_CODE
                    /\ ParseInt(text[3]) = <<row.MEDIAN_AMT_BY_ZIP>>
                    /\ ParseInt(text[4]) = <<row.DONATION_COUNT>>
                    /\ ParseInt(text[5]) = <<row.TOTAL_AMT>>

\* three rows of two committees written, one line of the input having been skipped
C4_Witness ==
    /\ pc = "done"
    /\ Len(accepted) = 3
    /\ lineno = 4
    /\ accepted[1].row.CMTE_ID # accepted[2].row.CMTE_ID

(* C5: a line of 21 fields that passes the validator and whose amount text *)
(* is no number is skipped: no row, nothing filed, the run goes on.        *)
C5_UnparsableAmountSkipped ==
    [][\A line \in Lines :
          (Raw[line].n = NumFields /\ ~ RuleRejects(line) /\ ~ NumberText(Raw[line].amt)
              /\ ReadLine(line))
          => Skipped]_vars

(* C6: two accepted lines are filed under the same dictionary entry if and *)
(* only if their whole recipient_id fields are equal and their normalized  *)
(* postal codes are equal.                                                 *)
C6_WholeFieldKey ==
    \A i, j \in 1..Len(accepted) :
        SameKey(accepted[i].row, accepted[j].row)
            <=> /\ Raw[accepted[i].line].cmte = Raw[accepted[j].line].cmte
                /\ PostalCode(accepted[i].line) = PostalCode(accepted[j].line)

(* C7: the validator rejects a record of a 21-field line exactly when one  *)
(* of the four rules holds, and a rejection is a value, not an exception.  *)
C7_ValidatorRules ==
    [][\A line \in Lines :
          (Raw[line].n = NumFields /\ ReadLine(line))
          => /\ (last' = "invalid") <=> RuleRejects(line)
             /\ last' = "invalid" => pc' = "loop" /\ raised' = NoError]_vars

\* a line was rejected by the validator after a row had been emitted
C7_Witness == last = "invalid" /\ pc = "loop" /\ Len(accepted) >= 1

(* C8: a line whose field count is not 21, or that a validation rule       *)
(* rejects, is skipped: no row, the dictionary and the rows as before, and *)
(* the run goes on from the same state as if the line had not been there.  *)
C8_BadLineSkipped ==
    [][\A line \in Lines :
          ((Raw[line].n # NumFields \/ RuleRejects(line)) /\ ReadLine(line))
          => Skipped /\ accepted' = accepted]_vars

\* a line of the wrong field count was skipped after a row had been emitted
C8_Witness == last = "malformed" /\ pc = "loop" /\ Len(accepted) >= 1

C10_CompletesOnEveryInput ==
    (pc # "loop" /\ last # "error")
        => pc = "done" /\ output # <<>> /\ Len(output[1]) = Len(accepted)

=============================================================================
